---- MODULE Spec2Model ----
(***************************************************************************)
(* api/wasmtime_environ/isa/sidebar-items.js                               *)
(*                                                                         *)
(* The file is one JavaScript statement: a call of initSidebarItems whose  *)
(* only argument is an object literal.  The model holds the text of the    *)
(* file and evaluates it the way a script loader does: it reads the text   *)
(* character by character, builds the values of the literal on a stack of  *)
(* open containers and, at the closing parenthesis, performs the call.     *)
(* Every property of the index is a property of the value that this        *)
(* evaluation passes to initSidebarItems.                                  *)
(***************************************************************************)
EXTENDS Integers, Sequences, FiniteSets, TLC

VARIABLES pc, pos, callee, str, stack, calls, loads

vars == <<pc, pos, callee, str, stack, calls, loads>>

\* How many times the page loads the script.
MaxLoads == 2

(***************************************************************************)
(* Faulty variants of the text: the index without its module entry, with   *)
(* a two-line description, and with a category that lists nothing.         *)
(***************************************************************************)
SourceWithoutFde ==
    "initSidebarItems({\"enum\":[[\"CallConv\",\"Calling convention " \o
    "identifiers.\"]]," \o
    "\"struct\":[[\"TargetFrontendConfig\",\"This struct provides " \o
    "information that a frontend may need to know about a target to " \o
    "produce Cranelift IR for the target.\"]]," \o
    "\"trait\":[[\"TargetIsa\",\"Methods that are specialized to a target " \o
    "ISA. Implies a Display trait that shows the shared flags, as well " \o
    "as any isa-specific flags.\"]]," \o
    "\"type\":[[\"RegUnit\",\"Register units are the smallest units of " \o
    "register allocation.\"]]});"

SourceLineBreak ==
    "initSidebarItems({\"enum\":[[\"CallConv\",\"Calling " \o
    "convention\\nidentifiers.\"]]," \o
    "\"mod\":[[\"fde\",\"\"]]," \o
    "\"struct\":[[\"TargetFrontendConfig\",\"This struct provides " \o
    "information that a frontend may need to know about a target to " \o
    "produce Cranelift IR for the target.\"]]," \o
    "\"trait\":[[\"TargetIsa\",\"Methods that are specialized to a target " \o
    "ISA. Implies a Display trait that shows the shared flags, as well " \o
    "as any isa-specific flags.\"]]," \o
    "\"type\":[[\"RegUnit\",\"Register units are the smallest units of " \o
    "register allocation.\"]]});"

SourceEmptyCategory ==
    "initSidebarItems({\"enum\":[[\"CallConv\",\"Calling convention " \o
    "identifiers.\"]]," \o
    "\"mod\":[],\"struct\":[[\"TargetFrontendConfig\",\"This struct provides " \o
    "information that a frontend may need to know about a target to " \o
    "produce Cranelift IR for the target.\"]]," \o
    "\"trait\":[[\"TargetIsa\",\"Methods that are specialized to a target " \o
    "ISA. Implies a Display trait that shows the shared flags, as well " \o
    "as any isa-specific flags.\"]]," \o
    "\"type\":[[\"RegUnit\",\"Register units are the smallest units of " \o
    "register allocation.\"]]});"

(***************************************************************************)
(* The text of the file, byte for byte (one line, no line terminator).     *)
(***************************************************************************)
Source ==
    "initSidebarItems({\"enum\":[[\"CallConv\",\"Calling convention " \o
    "identifiers.\"]]," \o
    "\"mod\":[[\"fde\",\"\"]]," \o
    "\"struct\":[[\"TargetFrontendConfig\",\"This struct provides " \o
    "information that a frontend may need to know about a target to " \o
    "produce Cranelift IR for the target.\"]]," \o
    "\"trait\":[[\"TargetIsa\",\"Methods that are specialized to a target " \o
    "ISA. Implies a Display trait that shows the shared flags, as well " \o
    "as any isa-specific flags.\"]]," \o
    "\"type\":[[\"RegUnit\",\"Register units are the smallest units of " \o
    "register allocation.\"]]});"

(***************************************************************************)
(* Lexical helpers.                                                        *)
(***************************************************************************)
Char(i) == SubSeq(Source, i, i)

\* The character under the cursor, "" at the end of the text.
Cur == IF pos <= Len(Source) THEN Char(pos) ELSE ""

InStr(c, s) == \E i \in 1..Len(s) : SubSeq(s, i, i) = c

IdentChars ==
    "abcdefghijklmnopqrstuvwxyz" \o
    "ABCDEFGHIJKLMNOPQRSTUVWXYZ" \o
    "0123456789_$"

\* Characters that cannot stand unescaped inside a string literal.
LineTerminators == {"\n", "\r"}

\* The character an escape sequence \c denotes.
Unescape(c) ==
    CASE c = "n" -> "\n"
      [] c = "r" -> "\r"
      [] c = "t" -> "\t"
      [] OTHER   -> c

AppendChar(s, c) == s \o c

(***************************************************************************)
(* Values of the literal, tagged by their JavaScript type.                 *)
(***************************************************************************)
StrVal(s) == [t |-> "str", v |-> s]
ArrVal(a) == [t |-> "arr", v |-> a]
ObjVal(f) == [t |-> "obj", v |-> f]

\* An open container: the call's argument list, an array or an object.
\* An object frame remembers the property name it has read until the
\* property's value arrives.
Frame(t) == [t |-> t, v |-> << >>, key |-> "", haskey |-> FALSE]

Top(stk) == stk[Len(stk)]
Pop(stk) == SubSeq(stk, 1, Len(stk) - 1)

\* Faulty: the new value overwrites every property.
PutOverAll(f, k, val) == [x \in DOMAIN f \cup {k} |-> val]

\* Define property k of an object; a repeated name replaces the value.
Put(f, k, val) == [x \in DOMAIN f \cup {k} |-> IF x = k THEN val ELSE f[x]]

\* Faulty: the property name is lost.
BindKeyNameless(frame, val) == [frame EXCEPT !.key = "", !.haskey = TRUE]

BindKey(frame, val) == [frame EXCEPT !.key = val.v, !.haskey = TRUE]

BindValue(frame, val) ==
    [frame EXCEPT !.v = Put(frame.v, frame.key, val), !.key = "", !.haskey = FALSE]

\* Faulty: an array element is spliced in instead of nested.
AppendElemFlat(frame, val) ==
    [frame EXCEPT !.v = IF val.t = "arr" THEN frame.v \o val.v
                                         ELSE Append(frame.v, val)]

AppendElem(frame, val) == [frame EXCEPT !.v = Append(frame.v, val)]

\* A finished value goes to the innermost open container.
Deliver(stk, val) ==
    LET top == Top(stk)
    IN  Append(Pop(stk),
               CASE top.t = "obj" /\ ~top.haskey -> BindKey(top, val)
                 [] top.t = "obj" /\ top.haskey  -> BindValue(top, val)
                 [] OTHER                        -> AppendElem(top, val))

\* What the evaluator expects after a value has gone to the top of stk.
AfterValue(stk) ==
    IF Top(stk).t = "obj" /\ ~Top(stk).haskey THEN "colon" ELSE "sep"

\* Faulty: the call is made without its argument.
CallRecordNoArgs(load, fn, args) == [load |-> load, fn |-> fn, args |-> << >>]

\* One observed call of a global function.
CallRecord(load, fn, args) == [load |-> load, fn |-> fn, args |-> args]

(***************************************************************************)
(* State after construction: the page has not loaded the script yet.       *)
(***************************************************************************)
Init ==
    /\ pc = "idle"
    /\ pos = 1
    /\ callee = ""
    /\ str = ""
    /\ stack = << >>
    /\ calls = << >>
    /\ loads = 0

\* The page loads the script (again): evaluation starts at the first byte.
Load ==
    /\ pc \in {"idle", "done"}
    /\ loads < MaxLoads
    /\ loads' = loads + 1
    /\ pc' = "stmt"
    /\ pos' = 1
    /\ callee' = ""
    /\ str' = ""
    /\ stack' = << >>
    /\ UNCHANGED calls

\* initSidebarItems : the name of the called function, one character.
ReadCallee ==
    /\ pc = "stmt"
    /\ Cur # ""
    /\ InStr(Cur, IdentChars)
    /\ callee' = AppendChar(callee, Cur)
    /\ pos' = pos + 1
    /\ UNCHANGED <<pc, str, stack, calls, loads>>

\* ( : the argument list opens.
OpenCall ==
    /\ pc = "stmt"
    /\ callee # ""
    /\ Cur = "("
    /\ stack' = Append(stack, Frame("call"))
    /\ pc' = "value"
    /\ pos' = pos + 1
    /\ UNCHANGED <<callee, str, calls, loads>>

\* { : an object literal opens.
OpenObject ==
    /\ pc = "value"
    /\ Cur = "{"
    /\ stack' = Append(stack, Frame("obj"))
    /\ pc' = "key"
    /\ pos' = pos + 1
    /\ UNCHANGED <<callee, str, calls, loads>>

\* [ : an array literal opens.
OpenArray ==
    /\ pc = "value"
    /\ Cur = "["
    /\ stack' = Append(stack, Frame("arr"))
    /\ pc' = "value"
    /\ pos' = pos + 1
    /\ UNCHANGED <<callee, str, calls, loads>>

\* " : a string literal opens, as a property name or as a value.
OpenString ==
    /\ pc \in {"value", "key"}
    /\ Cur = "\""
    /\ str' = ""
    /\ pc' = IF pc = "key" THEN "keystring" ELSE "string"
    /\ pos' = pos + 1
    /\ UNCHANGED <<callee, stack, calls, loads>>

\* One character of a string literal (two when it is an escape sequence).
ReadChar ==
    /\ pc \in {"string", "keystring"}
    /\ Cur \notin {"", "\""} \cup LineTerminators
    /\ IF Cur = "\\"
         THEN /\ pos + 1 <= Len(Source)
              /\ str' = AppendChar(str, Unescape(Char(pos + 1)))
              /\ pos' = pos + 2
         ELSE /\ str' = AppendChar(str, Cur)
              /\ pos' = pos + 1
    /\ UNCHANGED <<pc, callee, stack, calls, loads>>

\* " : the string literal closes and its value is delivered.
CloseString ==
    /\ pc \in {"string", "keystring"}
    /\ Cur = "\""
    /\ stack' = Deliver(stack, StrVal(str))
    /\ pc' = AfterValue(stack)
    /\ str' = ""
    /\ pos' = pos + 1
    /\ UNCHANGED <<callee, calls, loads>>

\* : between a property name and its value.
Colon ==
    /\ pc = "colon"
    /\ Cur = ":"
    /\ pc' = "value"
    /\ pos' = pos + 1
    /\ UNCHANGED <<callee, str, stack, calls, loads>>

\* , between two elements or two properties.
Comma ==
    /\ pc = "sep"
    /\ Cur = ","
    /\ pc' = IF Top(stack).t = "obj" THEN "key" ELSE "value"
    /\ pos' = pos + 1
    /\ UNCHANGED <<callee, str, stack, calls, loads>>

\* ] : the innermost array closes and is delivered to its container.
CloseArray ==
    /\ pc \in {"sep", "value"}
    /\ Cur = "]"
    /\ Top(stack).t = "arr"
    /\ pc = "value" => Len(Top(stack).v) = 0
    /\ stack' = Deliver(Pop(stack), ArrVal(Top(stack).v))
    /\ pc' = AfterValue(Pop(stack))
    /\ pos' = pos + 1
    /\ UNCHANGED <<callee, str, calls, loads>>

\* } : the innermost object closes and is delivered to its container.
CloseObject ==
    /\ pc \in {"sep", "key"}
    /\ Cur = "}"
    /\ Top(stack).t = "obj"
    /\ ~Top(stack).haskey
    /\ pc = "key" => DOMAIN Top(stack).v = {}
    /\ stack' = Deliver(Pop(stack), ObjVal(Top(stack).v))
    /\ pc' = AfterValue(Pop(stack))
    /\ pos' = pos + 1
    /\ UNCHANGED <<callee, str, calls, loads>>

\* ) : the argument list closes and the function is called.
CloseCall ==
    /\ pc \in {"sep", "value"}
    /\ Cur = ")"
    /\ Len(stack) = 1
    /\ Top(stack).t = "call"
    /\ pc = "value" => Len(Top(stack).v) = 0
    /\ calls' = Append(calls, CallRecord(loads, callee, Top(stack).v))
    /\ stack' = << >>
    /\ pc' = "end"
    /\ pos' = pos + 1
    /\ UNCHANGED <<callee, str, loads>>

\* ; : the statement ends; the script ends when the text does.
EndStatement ==
    /\ pc = "end"
    /\ Cur = ";"
    /\ callee' = ""
    /\ pos' = pos + 1
    /\ pc' = IF pos + 1 > Len(Source) THEN "done" ELSE "stmt"
    /\ UNCHANGED <<str, stack, calls, loads>>

Next ==
    \/ Load
    \/ ReadCallee
    \/ OpenCall
    \/ OpenObject
    \/ OpenArray
    \/ OpenString
    \/ ReadChar
    \/ CloseString
    \/ Colon
    \/ Comma
    \/ CloseArray
    \/ CloseObject
    \/ CloseCall
    \/ EndStatement

Spec == Init /\ [][Next]_vars

(***************************************************************************)
(* The index: the argument of an observed call, and its entries.           *)
(***************************************************************************)
Categories == {"enum", "mod", "struct", "trait", "type"}

IsStr(x) == x.t = "str"

\* An array of exactly two strings: [name, description].
IsPair(x) == x.t = "arr" /\ Len(x.v) = 2 /\ IsStr(x.v[1]) /\ IsStr(x.v[2])

IsPairArray(x) == x.t = "arr" /\ \A i \in DOMAIN x.v : IsPair(x.v[i])

IsIndex(x) == x.t = "obj" /\ \A k \in DOMAIN x.v : IsPairArray(x.v[k])

Keys(idx) == DOMAIN idx.v

\* The positions <<category, i>> of the entries of an index.
Entries(idx) == UNION {{<<k, i>> : i \in DOMAIN idx.v[k].v} : k \in Keys(idx)}

EntryName(idx, e) == idx.v[e[1]].v[e[2]].v[1].v
EntryDesc(idx, e) == idx.v[e[1]].v[e[2]].v[2].v

Occurrences(idx, name) == {e \in Entries(idx) : EntryName(idx, e) = name}

OneLine(s) == \A c \in LineTerminators : ~InStr(c, s)

\* The indexes passed to initSidebarItems so far, one per call.
Indexes == {calls[i].args[1] : i \in {j \in DOMAIN calls : Len(calls[j].args) >= 1}}

Called == pc = "done" /\ Len(calls) >= 1

(***************************************************************************)
(* C1: the argument of every call of initSidebarItems is a mapping from    *)
(* category strings to arrays whose elements are arrays of exactly two     *)
(* strings, the symbol name and the description.                           *)
(***************************************************************************)
C1_ArgumentIsPairMap ==
    \A i \in DOMAIN calls :
        /\ Len(calls[i].args) = 1
        /\ IsIndex(calls[i].args[1])

C1_Witness ==
    /\ Called
    /\ \E idx \in Indexes : \E k \in Keys(idx) :
           /\ Len(idx.v[k].v) >= 1
           /\ IsPair(idx.v[k].v[1])

(***************************************************************************)
(* C2: the category keys of the index are exactly enum, mod, struct,       *)
(* trait and type.                                                         *)
(***************************************************************************)
C2_ExactlyFiveCategories ==
    \A idx \in Indexes : Keys(idx) = Categories

C2_Witness ==
    /\ Called
    /\ \E idx \in Indexes : Cardinality(Keys(idx)) = 5

(***************************************************************************)
(* C3 as stated: the index lists four entries in total.                   *)
(***************************************************************************)
C3_FourEntries ==
    \A idx \in Indexes : Cardinality(Entries(idx)) = 4

(***************************************************************************)
(* C3 amended: the index lists five entries in total, one per category;    *)
(* the fifth is the module fde under "mod".                                *)
(***************************************************************************)
C3_FiveEntries ==
    \A idx \in Indexes :
        /\ Cardinality(Entries(idx)) = 5
        /\ \A k \in Keys(idx) : Len(idx.v[k].v) = 1
        /\ Occurrences(idx, "fde") = {<<"mod", 1>>}

C3_Witness ==
    /\ Called
    /\ \E idx \in Indexes : "mod" \in Keys(idx) /\ Cardinality(Entries(idx)) > 4

(***************************************************************************)
(* C4 as stated: every description is a non-empty string without a line   *)
(* break.                                                                  *)
(***************************************************************************)
C4_EveryDescriptionNonEmpty ==
    \A idx \in Indexes : \A e \in Entries(idx) :
        /\ EntryDesc(idx, e) # ""
        /\ OneLine(EntryDesc(idx, e))

(***************************************************************************)
(* C4 amended: every description is a string without a line break, and it  *)
(* is non-empty for every entry except the module fde under "mod", whose   *)
(* description is the empty string.                                        *)
(***************************************************************************)
C4_OneLineDescriptions ==
    \A idx \in Indexes : \A e \in Entries(idx) :
        /\ IsStr(idx.v[e[1]].v[e[2]].v[2])
        /\ OneLine(EntryDesc(idx, e))
        /\ EntryDesc(idx, e) = "" <=> (e[1] = "mod" /\ EntryName(idx, e) = "fde")

C4_Witness ==
    /\ Called
    /\ \E idx \in Indexes :
           /\ \E e \in Entries(idx) : EntryDesc(idx, e) = ""
           /\ \E e \in Entries(idx) : Len(EntryDesc(idx, e)) > 0

(***************************************************************************)
(* C5: TargetIsa, CallConv, RegUnit and TargetFrontendConfig each occur    *)
(* exactly once in the index, under the category of their kind.            *)
(***************************************************************************)
C5_SymbolsUnderTheirKind ==
    \A idx \in Indexes :
        /\ Occurrences(idx, "CallConv") = {<<"enum", 1>>}
        /\ Occurrences(idx, "TargetFrontendConfig") = {<<"struct", 1>>}
        /\ Occurrences(idx, "TargetIsa") = {<<"trait", 1>>}
        /\ Occurrences(idx, "RegUnit") = {<<"type", 1>>}

C5_Witness ==
    /\ Called
    /\ \E idx \in Indexes : \E e \in Entries(idx) :
           e[1] = "trait" /\ EntryName(idx, e) = "TargetIsa"

(***************************************************************************)
(* C7: a load of the script makes exactly one call, of initSidebarItems    *)
(* with one argument; the whole text is that one statement; once the call  *)
(* is made nothing more happens until the script is loaded again; and      *)
(* every load passes the same value.                                       *)
(***************************************************************************)
OneCallPerLoad ==
    /\ Len(calls) <= loads
    /\ pc \in {"end", "done"} => Len(calls) = loads
    /\ pc = "done" => pos = Len(Source) + 1 /\ Len(stack) = 0
    /\ \A i \in DOMAIN calls :
           /\ calls[i].load = i
           /\ calls[i].fn = "initSidebarItems"
           /\ Len(calls[i].args) = 1
           /\ calls[i].args = calls[1].args

InertAfterCall ==
    /\ pc = "end" => pc' = "done" /\ calls' = calls
    /\ pc = "done" => pc' = "stmt" /\ loads' = loads + 1 /\ calls' = calls

C7_OneCallThenInert == []OneCallPerLoad /\ [][InertAfterCall]_vars

C7_Witness ==
    /\ pc = "done"
    /\ loads = 2
    /\ Len(calls) = 2
    /\ calls[1].args = calls[2].args

(***************************************************************************)
(* C8: no category is empty, every symbol name is non-empty and no symbol  *)
(* name occurs twice in the index, within or across categories.            *)
(***************************************************************************)
C8_WellFormedForNavigation ==
    \A idx \in Indexes :
        /\ \A k \in Keys(idx) : Len(idx.v[k].v) >= 1
        /\ \A e \in Entries(idx) : EntryName(idx, e) # ""
        /\ \A e1, e2 \in Entries(idx) :
               EntryName(idx, e1) = EntryName(idx, e2) => e1 = e2

C8_Witness ==
    /\ Called
    /\ \E idx \in Indexes : \E e1, e2 \in Entries(idx) :
           e1[1] # e2[1] /\ EntryName(idx, e1) # EntryName(idx, e2)

====
